---- MODULE Spec2Model ----
(***************************************************************************)
(* Row validation engine of revisor-de-incidencias                         *)
(* (src/app/validation/engine.py, src/app/validation/rules.py).           *)
(*                                                                         *)
(* A cell value is a record tagged by k:                                   *)
(*   "none"      None / NaN (what pandas gives for a blank cell)           *)
(*   "str"       text, s = the sequence of its characters                  *)
(*   "int"       a Python int n                                            *)
(*   "float"     a Python float whose repr is [-]ip.frac                   *)
(*   "time"      datetime.time, t = seconds since midnight                 *)
(*   "datetime"  datetime / pandas.Timestamp (y, mo, d, t)                 *)
(* Text is a sequence of one-character strings so that strip, upper,       *)
(* slicing and the regular expressions of the source can be computed.      *)
(* An Optional[...] result is a sequence of length 0 (None) or 1.          *)
(***************************************************************************)
EXTENDS Integers, Sequences, FiniteSets, TLC

VARIABLES columns, df, cycle_averages, pc, i, incidence, issues, results, error,
          ret   \* the value returned by a rule function called on its own

vars == <<columns, df, cycle_averages, pc, i, incidence, issues, results, error, ret>>

----------------------------------------------------------------------------
(* rules.py: schema *)

ALL_COLUMNS ==
  <<"Recorrido", "Servicio", "Unidad", "Salida programada", "Salida real",
    "Hora de llegada", "Ciclo", "Unidad saliente", "Hora cambio", "Parada",
    "Incidencia", "Motivo", "Código", "Conductor", "Observaciones">>

Range(s) == {s[n] : n \in 1..Len(s)}

----------------------------------------------------------------------------
(* Python str and int primitives used by the source *)

LowerCase ==
  <<"a","b","c","d","e","f","g","h","i","j","k","l","m",
    "n","o","p","q","r","s","t","u","v","w","x","y","z">>

UpperCase ==
  <<"A","B","C","D","E","F","G","H","I","J","K","L","M",
    "N","O","P","Q","R","S","T","U","V","W","X","Y","Z">>

DigitChars == <<"0","1","2","3","4","5","6","7","8","9">>

IsDigit(c) == c \in Range(DigitChars)

DigitVal(c) == (CHOOSE n \in 1..10 : DigitChars[n] = c) - 1

IsSpace(c) == c = " "

CharUpper(c) ==
  IF c \in Range(LowerCase)
  THEN UpperCase[CHOOSE n \in 1..26 : LowerCase[n] = c]
  ELSE c

CharLower(c) ==
  IF c \in Range(UpperCase)
  THEN LowerCase[CHOOSE n \in 1..26 : UpperCase[n] = c]
  ELSE c

StrUpper(s) == [n \in 1..Len(s) |-> CharUpper(s[n])]

StrLower(s) == [n \in 1..Len(s) |-> CharLower(s[n])]

RECURSIVE LStrip(_)
LStrip(s) == IF s # <<>> /\ IsSpace(s[1]) THEN LStrip(Tail(s)) ELSE s

RECURSIVE RStrip(_)
RStrip(s) ==
  IF s # <<>> /\ IsSpace(s[Len(s)]) THEN RStrip(SubSeq(s, 1, Len(s) - 1)) ELSE s

StrStrip(s) == RStrip(LStrip(s))

AllDigits(s) == s # <<>> /\ \A n \in 1..Len(s) : IsDigit(s[n])

RECURSIVE DigitsToInt(_)
DigitsToInt(s) ==
  IF s = <<>> THEN 0
  ELSE 10 * DigitsToInt(SubSeq(s, 1, Len(s) - 1)) + DigitVal(s[Len(s)])

RECURSIVE NatToStr(_)
NatToStr(n) ==
  IF n < 10 THEN <<DigitChars[n + 1]>>
  ELSE NatToStr(n \div 10) \o <<DigitChars[(n % 10) + 1]>>

IntToStr(n) == IF n < 0 THEN <<"-">> \o NatToStr(-n) ELSE NatToStr(n)

Pad2(n) == IF n < 10 THEN <<"0">> \o NatToStr(n) ELSE NatToStr(n)

\* int(text) of Python on already stripped text: an optional sign and digits
PyInt(s) ==
  LET body == IF s # <<>> /\ s[1] \in {"+", "-"} THEN Tail(s) ELSE s
  IN  IF AllDigits(body)
      THEN <<IF s[1] = "-" THEN -DigitsToInt(body) ELSE DigitsToInt(body)>>
      ELSE <<>>

----------------------------------------------------------------------------
(* Cell values *)

None == [k |-> "none"]

Text(s) == [k |-> "str", s |-> s]

IntCell(n) == [k |-> "int", n |-> n]

\* a float written [-]ip.frac; frac is its repr's fractional digits
FloatCell(neg, ip, frac) == [k |-> "float", neg |-> neg, ip |-> ip, frac |-> frac]

TimeCell(h, m, s) == [k |-> "time", t |-> (h * 3600) + (m * 60) + s]

DateTimeCell(y, mo, d, t) == [k |-> "datetime", y |-> y, mo |-> mo, d |-> d, t |-> t]

RECURSIVE Pow10(_)
Pow10(e) == IF e = 0 THEN 1 ELSE 10 * Pow10(e - 1)

\* the exact value n/d of a number cell
RatOf(v) ==
  IF v.k = "int" THEN [n |-> v.n, d |-> 1]
  ELSE LET m == (v.ip * Pow10(Len(v.frac))) + DigitsToInt(v.frac)
       IN  [n |-> IF v.neg THEN -m ELSE m, d |-> Pow10(Len(v.frac))]

RatLT(x, y) == x.n * y.d < y.n * x.d

RatGT(x, y) == RatLT(y, x)

ClockStr(t) ==
  Pad2(t \div 3600) \o <<":">> \o Pad2((t % 3600) \div 60) \o <<":">> \o Pad2(t % 60)

\* str(value)
Str(v) ==
  CASE v.k = "str" -> v.s
    [] v.k = "int" -> IntToStr(v.n)
    [] v.k = "float" ->
         (IF v.neg THEN <<"-">> ELSE <<>>) \o NatToStr(v.ip) \o <<".">> \o v.frac
    [] v.k = "time" -> ClockStr(v.t)
    [] v.k = "datetime" ->
         NatToStr(v.y) \o <<"-">> \o Pad2(v.mo) \o <<"-">> \o Pad2(v.d)
           \o <<" ">> \o ClockStr(v.t)
    [] v.k = "none" -> <<"N","o","n","e">>

\* row.get(field)
Get(row, field) == IF field \in DOMAIN row THEN row[field] ELSE None

is_empty(value) ==
  \/ value.k = "none"
  \/ /\ value.k = "str"
     /\ StrLower(StrStrip(value.s)) \in {<<>>, <<"n","a","n">>}

\* round(n/d) of Python: to nearest, ties to even
RoundHalfEven(n, d) ==
  LET q == n \div d
      r == n % d
  IN  IF 2 * r > d \/ (2 * r = d /\ q % 2 = 1) THEN q + 1 ELSE q

\* pd.to_datetime(text, errors="coerce") on clock text H:MM, HH:MM, HH:MM:SS;
\* any other text of the alphabet used here is not a date and gives NaT
ParseClock(s) ==
  LET colons == {n \in 1..Len(s) : s[n] = ":"}
      c1 == CHOOSE n \in colons : \A m \in colons : n <= m
      c2 == CHOOSE n \in colons : \A m \in colons : m <= n
      hh == SubSeq(s, 1, c1 - 1)
      mm == IF c1 = c2 THEN SubSeq(s, c1 + 1, Len(s)) ELSE SubSeq(s, c1 + 1, c2 - 1)
      ss == IF c1 = c2 THEN <<"0","0">> ELSE SubSeq(s, c2 + 1, Len(s))
  IN  IF /\ Cardinality(colons) \in {1, 2}
         /\ AllDigits(hh) /\ Len(hh) \in {1, 2}
         /\ AllDigits(mm) /\ Len(mm) = 2
         /\ AllDigits(ss) /\ Len(ss) = 2
         /\ DigitsToInt(hh) < 24 /\ DigitsToInt(mm) < 60 /\ DigitsToInt(ss) < 60
      THEN <<(DigitsToInt(hh) * 3600) + (DigitsToInt(mm) * 60) + DigitsToInt(ss)>>
      ELSE <<>>

to_time(value) ==
  CASE is_empty(value) -> <<>>
    [] value.k = "time" -> <<value.t>>
    [] value.k = "datetime" -> <<value.t>>
    [] value.k \in {"int", "float"} ->
         LET x == RatOf(value)
         IN  IF 0 <= x.n /\ x.n < x.d
             THEN <<RoundHalfEven(x.n * 86400, x.d) % 86400>>
             ELSE <<>>
    [] value.k = "str" -> ParseClock(value.s)

to_int(value) == IF is_empty(value) THEN <<>> ELSE PyInt(StrStrip(Str(value)))

\* float(text) of Python: optional sign, digits with an optional point
PyFloat(s0) ==
  LET s == StrStrip(s0)
      neg == s # <<>> /\ s[1] = "-"
      body == IF s # <<>> /\ s[1] \in {"+", "-"} THEN Tail(s) ELSE s
      dots == {n \in 1..Len(body) : body[n] = "."}
      dot == IF dots = {} THEN Len(body) + 1 ELSE CHOOSE n \in dots : TRUE
      ip == SubSeq(body, 1, dot - 1)
      fp == SubSeq(body, dot + 1, Len(body))
      m == (DigitsToInt(ip) * Pow10(Len(fp))) + DigitsToInt(fp)
  IN  IF /\ Cardinality(dots) <= 1
         /\ ip \o fp # <<>>
         /\ \A n \in 1..Len(ip) : IsDigit(ip[n])
         /\ \A n \in 1..Len(fp) : IsDigit(fp[n])
      THEN <<[n |-> IF neg THEN -m ELSE m, d |-> Pow10(Len(fp))]>>
      ELSE <<>>

to_float(value) ==
  CASE is_empty(value) -> <<>>
    [] value.k \in {"int", "float"} -> <<RatOf(value)>>
    [] value.k = "str" -> PyFloat(value.s)
    [] OTHER -> <<>>

----------------------------------------------------------------------------
(* rules.py: parse_motivo_code *)

\* re.findall(r"\d+", text): the maximal digit runs, as [from, to] spans
RunStarts(s) ==
  {n \in 1..Len(s) : IsDigit(s[n]) /\ (n = 1 \/ ~IsDigit(s[n - 1]))}

RunEnd(s, a) ==
  CHOOSE b \in a..Len(s) :
    /\ \A n \in a..b : IsDigit(s[n])
    /\ (b = Len(s) \/ ~IsDigit(s[b + 1]))

RECURSIVE SortedSeq(_)
SortedSeq(S) ==
  IF S = {} THEN <<>>
  ELSE LET lo == CHOOSE x \in S : \A y \in S : x <= y
       IN  <<lo>> \o SortedSeq(S \ {lo})

DigitRuns(s) ==
  LET starts == SortedSeq(RunStarts(s))
  IN  [n \in 1..Len(starts) |-> [from |-> starts[n], to |-> RunEnd(s, starts[n])]]

RunValue(s, r) == DigitsToInt(SubSeq(s, r.from, r.to))

\* the text between two digit runs matches \s*[|/\-]\s*
IsSeparator(gap) ==
  \E n \in 1..Len(gap) :
    /\ gap[n] \in {"|", "/", "-"}
    /\ \A m \in 1..Len(gap) : m # n => IsSpace(gap[m])

\* re.search(r"(\d+)\s*[|/\-]\s*(\d+)", text): the leftmost pair of adjacent
\* digit runs with only a separator between them
SeparatedPairs(s) ==
  LET runs == DigitRuns(s)
  IN  {n \in 1..(Len(runs) - 1) :
         IsSeparator(SubSeq(s, runs[n].to + 1, runs[n + 1].from - 1))}

parse_motivo_text(text) ==
  LET runs == DigitRuns(text)
      numbers == [n \in 1..Len(runs) |-> RunValue(text, runs[n])]
      pairs == SeparatedPairs(text)
      first == CHOOSE n \in pairs : \A m \in pairs : n <= m
  IN  IF Len(numbers) >= 3 /\ numbers[1] >= 1900
      THEN <<<<numbers[Len(numbers) - 1]>>, <<numbers[Len(numbers)]>>>>
      ELSE IF pairs # {}
      THEN <<<<numbers[first]>>, <<numbers[first + 1]>>>>
      ELSE IF Len(numbers) >= 2
      THEN <<<<numbers[1]>>, <<numbers[2]>>>>
      ELSE <<<<>>, PyInt(text)>>

parse_motivo_number(value) ==
  LET x == RatOf(value)
      integral == x.n % x.d = 0
      \* int(value) truncates toward zero
      int_value == IF x.n < 0 THEN -((-x.n) \div x.d) ELSE x.n \div x.d
      text_value == IntToStr(int_value)
  IN  IF value.k = "float" /\ ~integral /\ ~value.neg
      THEN <<<<value.ip>>, <<DigitsToInt(value.frac)>>>>
      ELSE IF Len(text_value) >= 2
      THEN IF IsDigit(text_value[1])
           THEN <<<<DigitVal(text_value[1])>>, <<DigitsToInt(Tail(text_value))>>>>
           ELSE <<<<>>, <<>>>>   \* int("-") raises, caught: (None, None)
      ELSE <<<<>>, <<int_value>>>>

\* (motivo_main, motivo_sub), each an Optional[int]
parse_motivo_code(value) ==
  CASE is_empty(value) -> <<<<>>, <<>>>>
    [] value.k = "datetime" -> <<<<value.mo>>, <<value.d>>>>
    [] value.k \in {"int", "float"} -> parse_motivo_number(value)
    [] OTHER -> parse_motivo_text(StrStrip(Str(value)))

----------------------------------------------------------------------------
(* rules.py: field checks and incidence rules *)

Issue(field, message) == [field |-> field, message |-> message]

\* [c for c in fields if c not in excluded]
Except(fields, excluded) == SelectSeq(fields, LAMBDA c : c \notin excluded)

check_required(row, required_fields, rule) ==
  LET empty == SelectSeq(required_fields, LAMBDA f : is_empty(Get(row, f)))
  IN  [n \in 1..Len(empty) |-> Issue(empty[n], rule \o ": Campo obligatorio")]

check_must_be_empty(row, empty_fields, rule) ==
  LET filled == SelectSeq(empty_fields, LAMBDA f : ~is_empty(Get(row, f)))
  IN  [n \in 1..Len(filled) |-> Issue(filled[n], rule \o ": Campo debe estar vacio")]


IN1_REQUIRED == Except(ALL_COLUMNS, {"Unidad saliente", "Hora cambio", "Parada"})

\* faulty variant: IN1 also forbids the change time and the stop
rule_in1_ForbidsChange(row) ==
  check_required(row, IN1_REQUIRED, "IN1")
    \o check_must_be_empty(row, <<"Unidad saliente", "Hora cambio", "Parada">>, "IN1")

rule_in1(row) ==
  check_required(row, IN1_REQUIRED, "IN1")
    \o (IF ~is_empty(Get(row, "Unidad saliente"))
        THEN <<Issue("Unidad saliente", "IN1: No debe haber dato aqui")>>
        ELSE <<>>)

\* faulty variant: IN2 accepts an actual departure equal to the scheduled one
rule_in2_NonStrict(row) ==
  LET t_prog == to_time(Get(row, "Salida programada"))
      t_real == to_time(Get(row, "Salida real"))
  IN  check_required(row, IN1_REQUIRED, "IN2")
        \o check_must_be_empty(row, <<"Unidad saliente", "Hora cambio", "Parada">>, "IN2")
        \o (IF t_prog = <<>> \/ t_real = <<>>
            THEN <<Issue("Salida real", "IN2: Salida real y programada deben ser validas")>>
            ELSE IF ~(t_real[1] <= t_prog[1])
            THEN <<Issue("Salida real", "IN2: Salida real debe ser menor que Salida programada")>>
            ELSE <<>>)

rule_in2(row) ==
  LET t_prog == to_time(Get(row, "Salida programada"))
      t_real == to_time(Get(row, "Salida real"))
  IN  check_required(row, IN1_REQUIRED, "IN2")
        \o check_must_be_empty(row, <<"Unidad saliente", "Hora cambio", "Parada">>, "IN2")
        \o (IF t_prog = <<>> \/ t_real = <<>>
            THEN <<Issue("Salida real", "IN2: Salida real y programada deben ser validas")>>
            ELSE IF ~(t_real[1] < t_prog[1])
            THEN <<Issue("Salida real", "IN2: Salida real debe ser menor que Salida programada")>>
            ELSE <<>>)

rule_in3(row) ==
  LET t_prog == to_time(Get(row, "Salida programada"))
      t_real == to_time(Get(row, "Salida real"))
  IN  check_required(row, IN1_REQUIRED, "IN3")
        \o check_must_be_empty(row, <<"Unidad saliente", "Hora cambio", "Parada">>, "IN3")
        \o (IF t_prog = <<>> \/ t_real = <<>>
            THEN <<Issue("Salida real", "IN3: Salida real y programada deben ser validas")>>
            ELSE IF ~(t_real[1] > t_prog[1])
            THEN <<Issue("Salida real", "IN3: Salida real debe ser mayor que Salida programada")>>
            ELSE <<>>)

rule_in4(row) ==
  LET t_prog == to_time(Get(row, "Salida programada"))
      t_real == to_time(Get(row, "Salida real"))
  IN  check_required(row, IN1_REQUIRED, "IN4")
        \o check_must_be_empty(row, <<"Unidad saliente", "Hora cambio", "Parada">>, "IN4")
        \o (IF t_prog = <<>> \/ t_real = <<>>
            THEN <<Issue("Salida real", "IN4: Salida real y programada deben ser validas")>>
            ELSE IF ~(t_real[1] > t_prog[1])
            THEN <<Issue("Salida real", "IN4: Salida real debe ser mayor que Salida programada")>>
            ELSE <<>>)

rule_in5(row) ==
  check_required(row, Except(ALL_COLUMNS, {"Parada"}), "IN5")
    \o check_must_be_empty(row, <<"Parada">>, "IN5")

IN6_ALLOWED ==
  {"Recorrido", "Servicio", "Salida programada", "Incidencia", "Motivo", "Observaciones"}

rule_in6(row) ==
  LET filled == SelectSeq(Except(ALL_COLUMNS, IN6_ALLOWED),
                          LAMBDA f : ~is_empty(Get(row, f)))
  IN  [n \in 1..Len(filled) |->
         Issue(filled[n], "IN6: Solo se permiten datos en Recorrido, Servicio, Salida programada, Incidencia, Motivo y Observaciones")]

\* faulty variant: "Hora cambio" stays required for motivo 8-35
in7_required_exclusions_UnidadOnly(is_8_35) == {"Unidad saliente"}

\* lines 267-269
in7_required_exclusions(is_8_35) ==
  {"Unidad saliente"} \cup (IF is_8_35 THEN {"Hora cambio"} ELSE {})

\* faulty variant: motivo 8-29 only asks "Hora cambio" to be filled, not to be a time
in7_motivo_rules_PresenceOnly(row, is_8_29, is_8_35) ==
  IF is_8_35
  THEN check_must_be_empty(row, <<"Unidad saliente", "Hora cambio">>, "IN7")
  ELSE IF is_8_29
  THEN check_must_be_empty(row, <<"Unidad saliente">>, "IN7")
         \o (IF is_empty(Get(row, "Hora cambio"))
             THEN <<Issue("Hora cambio", "IN7: Hora cambio obligatorio para motivo 8-29")>>
             ELSE <<>>)
  ELSE <<>>

\* faulty variant: "Unidad saliente" must be empty whatever the motivo
in7_motivo_rules_AlwaysUnidadSaliente(row, is_8_29, is_8_35) ==
  IF is_8_35
  THEN check_must_be_empty(row, <<"Unidad saliente", "Hora cambio">>, "IN7")
  ELSE IF is_8_29
  THEN check_must_be_empty(row, <<"Unidad saliente">>, "IN7")
         \o (IF to_time(Get(row, "Hora cambio")) = <<>>
             THEN <<Issue("Hora cambio", "IN7: Hora cambio obligatorio para motivo 8-29")>>
             ELSE <<>>)
  ELSE check_must_be_empty(row, <<"Unidad saliente">>, "IN7")

\* lines 273-279: "Reglas segun motivo"
in7_motivo_rules(row, is_8_29, is_8_35) ==
  IF is_8_35
  THEN check_must_be_empty(row, <<"Unidad saliente", "Hora cambio">>, "IN7")
  ELSE IF is_8_29
  THEN check_must_be_empty(row, <<"Unidad saliente">>, "IN7")
         \o (IF to_time(Get(row, "Hora cambio")) = <<>>
             THEN <<Issue("Hora cambio", "IN7: Hora cambio obligatorio para motivo 8-29")>>
             ELSE <<>>)
  ELSE <<>>

rule_in7(row) ==
  LET motivo == parse_motivo_code(Get(row, "Motivo"))
      is_8_29 == motivo[1] = <<8>> /\ motivo[2] = <<29>>
      is_8_35 == motivo[1] = <<8>> /\ motivo[2] = <<35>>
  IN  check_required(row, Except(ALL_COLUMNS, in7_required_exclusions(is_8_35)), "IN7")
        \o in7_motivo_rules(row, is_8_29, is_8_35)

\* faulty variant: the two cells are compared as written, not as times of day
rule_no_incidence_RawCompare(row) ==
  LET t_prog == to_time(Get(row, "Salida programada"))
      t_real == to_time(Get(row, "Salida real"))
  IN  IF t_prog = <<>> \/ t_real = <<>>
      THEN <<Issue("Salida real", "SP/SR: Salida programada y real deben existir y ser validas")>>
      ELSE IF Str(Get(row, "Salida programada")) # Str(Get(row, "Salida real"))
      THEN <<Issue("Salida real", "SP/SR: Salida programada debe ser igual a Salida real")>>
      ELSE <<>>

rule_no_incidence(row) ==
  LET t_prog == to_time(Get(row, "Salida programada"))
      t_real == to_time(Get(row, "Salida real"))
  IN  IF t_prog = <<>> \/ t_real = <<>>
      THEN <<Issue("Salida real", "SP/SR: Salida programada y real deben existir y ser validas")>>
      ELSE IF t_prog # t_real
      THEN <<Issue("Salida real", "SP/SR: Salida programada debe ser igual a Salida real")>>
      ELSE <<>>

\* faulty variant: the route text is looked up as it stands
rule_cycle_NoStrip(row, averages) ==
  LET recorrido_raw == Get(row, "Recorrido")
      recorrido == Str(recorrido_raw)
      ciclo == to_float(Get(row, "Ciclo"))
  IN  IF is_empty(recorrido_raw) \/ recorrido = <<>> \/ recorrido \notin DOMAIN averages
      THEN <<>>
      ELSE IF ciclo = <<>>
      THEN <<Issue("Ciclo", "Ciclo invalido; promedio permitido")>>
      ELSE IF RatGT(ciclo[1], averages[recorrido])
      THEN <<Issue("Ciclo", "Ciclo supera promedio permitido")>>
      ELSE <<>>

\* averages is the dict: a function from route text to the allowed average
rule_cycle(row, averages) ==
  LET recorrido_raw == Get(row, "Recorrido")
      recorrido == StrStrip(Str(recorrido_raw))
      ciclo == to_float(Get(row, "Ciclo"))
  IN  IF is_empty(recorrido_raw) \/ recorrido = <<>> \/ recorrido \notin DOMAIN averages
      THEN <<>>
      ELSE IF ciclo = <<>>
      THEN <<Issue("Ciclo", "Ciclo invalido; promedio permitido")>>
      ELSE IF RatGT(ciclo[1], averages[recorrido])
      THEN <<Issue("Ciclo", "Ciclo supera promedio permitido")>>
      ELSE <<>>

\* lines 118-124
normalize_incidence(value) ==
  IF is_empty(value) THEN <<>>
  ELSE LET incidence_text == StrUpper(StrStrip(Str(value)))
       IN  IF Len(incidence_text) >= 3 THEN SubSeq(incidence_text, 1, 3)
           ELSE incidence_text

\* lines 127-138: a cycle value in minutes, an exact rational, or <<>> for None
to_minutes(value) ==
  LET t_value == to_time(value)
      num == to_float(value)
  IN  IF t_value # <<>> THEN <<[n |-> t_value[1], d |-> 60]>>
      ELSE IF num = <<>> THEN <<>>
      ELSE IF 0 <= num[1].n /\ num[1].n < num[1].d
      THEN <<[n |-> num[1].n * 24 * 60, d |-> num[1].d]>>
      ELSE num

\* str.casefold on the letters used here
CaseFold(s) == [n \in 1..Len(s) |-> IF s[n] = "Ñ" THEN "ñ" ELSE CharLower(s[n])]

\* the elements of s at the positions of the set keep, in order
KeepAt(s, keep) ==
  LET at == SortedSeq(keep) IN [k \in 1..Len(at) |-> s[at[k]]]

\* the dash glyphs U+2013 and U+2014, each one character of a text
EnDash == "u2013"

EmDash == "u2014"

\* text.replace("\u2013", "-").replace("\u2014", "-")
UnifyDashes(s) == [n \in 1..Len(s) |-> IF s[n] \in {EnDash, EmDash} THEN "-" ELSE s[n]]

\* re.sub(r"\s+", " ", text)
CollapseSpaces(s) ==
  KeepAt(s, {n \in 1..Len(s) : ~(IsSpace(s[n]) /\ n > 1 /\ IsSpace(s[n - 1]))})

\* re.sub(r"\s*-\s*", "-", text) on a text whose blanks are single
TightenDashes(s) ==
  KeepAt(s, {n \in 1..Len(s) :
               ~(/\ IsSpace(s[n])
                 /\ \/ (n > 1 /\ s[n - 1] = "-")
                    \/ (n < Len(s) /\ s[n + 1] = "-"))})

\* lines 294-306: <<>> for None, else <<text>>
normalize_recorrido(value) ==
  IF is_empty(value) THEN <<>>
  ELSE LET text == CaseFold(StrStrip(Str(value)))
       IN  IF text = <<>> THEN <<>>
           ELSE <<TightenDashes(CollapseSpaces(UnifyDashes(text)))>>

\* lines 309-319: the dict in its insertion order
ROUTE_CYCLE_LIMITS ==
  <<[key |-> <<"t","e","r","m","i","n","a","l"," ","g","u","a","s","m","o","-","s","1">>,
     limit |-> TimeCell(1, 50, 0)],
    [key |-> <<"t","1","-","p","l","a","y","i","t","a">>,
     limit |-> TimeCell(0, 30, 0)],
    [key |-> <<"t","1","-","p","r","a","d","e","r","a","-","c","a","r","t","o","n","e","r","a">>,
     limit |-> TimeCell(1, 20, 0)],
    [key |-> <<"t","2","-","p","l","a","z","a"," ","d","a","ñ","i","n">>,
     limit |-> TimeCell(0, 30, 0)],
    [key |-> <<"t","2","-","e","s","t","e","r","o","s","-","f","e","r","t","i","s","a">>,
     limit |-> TimeCell(0, 30, 0)],
    [key |-> <<"t","2","-","s","a","m","a","n","e","s","-","p","s">>,
     limit |-> TimeCell(1, 0, 0)],
    [key |-> <<"t","2","-","g","u","a","y","a","c","a","n","e","s">>,
     limit |-> TimeCell(0, 40, 0)],
    [key |-> <<"t","2","-","t","r","d","-","p","l","a","y","i","t","a">>,
     limit |-> TimeCell(2, 20, 0)]>>

\* key in text
Contains(text, key) ==
  \E k \in 0..(Len(text) - Len(key)) : SubSeq(text, k + 1, k + Len(key)) = key

\* faulty variant: a cycle equal to the limit is flagged too
rule_cycle_route_limits_NonStrict(row) ==
  LET recorrido == normalize_recorrido(Get(row, "Recorrido"))
      exact == {n \in 1..Len(ROUTE_CYCLE_LIMITS) : ROUTE_CYCLE_LIMITS[n].key = recorrido[1]}
      matches == {n \in 1..Len(ROUTE_CYCLE_LIMITS) :
                    Contains(recorrido[1], ROUTE_CYCLE_LIMITS[n].key)}
      best_key == CHOOSE n \in matches : \A m \in matches :
                    \/ Len(ROUTE_CYCLE_LIMITS[m].key) < Len(ROUTE_CYCLE_LIMITS[n].key)
                    \/ (Len(ROUTE_CYCLE_LIMITS[m].key) = Len(ROUTE_CYCLE_LIMITS[n].key) /\ n <= m)
      limit == IF exact # {} THEN ROUTE_CYCLE_LIMITS[CHOOSE n \in exact : TRUE].limit
               ELSE ROUTE_CYCLE_LIMITS[best_key].limit
      ciclo_minutes == to_minutes(Get(row, "Ciclo"))
      limit_minutes == [n |-> limit.t, d |-> 60]
  IN  IF normalize_incidence(Get(row, "Incidencia")) = <<"I","N","6">> THEN <<>>
      ELSE IF recorrido = <<>> THEN <<>>
      ELSE IF exact = {} /\ matches = {} THEN <<>>
      ELSE IF ciclo_minutes = <<>> THEN <<Issue("Ciclo", "Ciclo obligatorio")>>
      ELSE IF ~RatLT(ciclo_minutes[1], limit_minutes)
      THEN <<Issue("Ciclo", "Ciclo supera limite")>>
      ELSE <<>>

\* lines 322-347
rule_cycle_route_limits(row) ==
  LET recorrido == normalize_recorrido(Get(row, "Recorrido"))
      exact == {n \in 1..Len(ROUTE_CYCLE_LIMITS) : ROUTE_CYCLE_LIMITS[n].key = recorrido[1]}
      matches == {n \in 1..Len(ROUTE_CYCLE_LIMITS) :
                    Contains(recorrido[1], ROUTE_CYCLE_LIMITS[n].key)}
      \* max(matches, key=len): the first of the longest
      best_key == CHOOSE n \in matches : \A m \in matches :
                    \/ Len(ROUTE_CYCLE_LIMITS[m].key) < Len(ROUTE_CYCLE_LIMITS[n].key)
                    \/ (Len(ROUTE_CYCLE_LIMITS[m].key) = Len(ROUTE_CYCLE_LIMITS[n].key) /\ n <= m)
      limit == IF exact # {} THEN ROUTE_CYCLE_LIMITS[CHOOSE n \in exact : TRUE].limit
               ELSE ROUTE_CYCLE_LIMITS[best_key].limit
      ciclo_minutes == to_minutes(Get(row, "Ciclo"))
      limit_minutes == [n |-> limit.t, d |-> 60]
  IN  IF normalize_incidence(Get(row, "Incidencia")) = <<"I","N","6">> THEN <<>>
      ELSE IF recorrido = <<>> THEN <<>>
      ELSE IF exact = {} /\ matches = {} THEN <<>>
      ELSE IF ciclo_minutes = <<>> THEN <<Issue("Ciclo", "Ciclo obligatorio")>>
      ELSE IF RatGT(ciclo_minutes[1], limit_minutes)
      THEN <<Issue("Ciclo", "Ciclo supera limite")>>
      ELSE <<>>

----------------------------------------------------------------------------
(* engine.py *)

IN1 == <<"I","N","1">>
IN2 == <<"I","N","2">>
IN3 == <<"I","N","3">>
IN4 == <<"I","N","4">>
IN5 == <<"I","N","5">>
IN6 == <<"I","N","6">>
IN7 == <<"I","N","7">>

\* the keys of INCIDENCE_RULES
INCIDENCE_RULES == {IN1, IN2, IN3, IN4, IN5, IN6, IN7}

\* INCIDENCE_RULES[code](row)
ApplyRegistered(code, row) ==
  CASE code = IN1 -> rule_in1(row)
    [] code = IN2 -> rule_in2(row)
    [] code = IN3 -> rule_in3(row)
    [] code = IN4 -> rule_in4(row)
    [] code = IN5 -> rule_in5(row)
    [] code = IN6 -> rule_in6(row)
    [] code = IN7 -> rule_in7(row)

_normalize_incidence(value) ==
  IF is_empty(value) THEN <<>>
  ELSE LET text == StrUpper(StrStrip(Str(value)))
       IN  IF Len(text) >= 3 THEN SubSeq(text, 1, 3) ELSE text

\* faulty variant: an unregistered code falls back to the rule of rows without code
RuleIssues_UnregisteredAsNone(code, row) ==
  IF code \in INCIDENCE_RULES THEN ApplyRegistered(code, row) ELSE rule_no_incidence(row)

\* lines 75-81: the issues of the rule step
RuleIssues(code, row) ==
  IF code # <<>>
  THEN IF code \in INCIDENCE_RULES THEN ApplyRegistered(code, row) ELSE <<>>
  ELSE rule_no_incidence(row)

\* faulty variant: Servicio 0 suppresses the row whatever its code
Suppressed_AnyCode(code, row) == to_int(Get(row, "Servicio")) = <<0>>

\* faulty variant: the test on the code is inverted, only IN7 rows are suppressed
Suppressed_OnlyIN7(code, row) == to_int(Get(row, "Servicio")) = <<0>> /\ code = IN7

\* lines 86-87
Suppressed(code, row) == to_int(Get(row, "Servicio")) = <<0>> /\ code # IN7

\* lines 104-107
RowValues(row) ==
  [col \in Range(ALL_COLUMNS) |->
     IF is_empty(Get(row, col)) THEN <<>> ELSE Str(Get(row, col))]

\* faulty variant: one entry per issue, repeated fields kept
ProblemDetails_KeepAll(pending, details) ==
  details \o [n \in 1..Len(pending) |-> pending[n].field]

\* lines 112-117
RECURSIVE ProblemDetails(_, _)
ProblemDetails(pending, details) ==
  IF pending = <<>> THEN details
  ELSE ProblemDetails(Tail(pending),
         IF pending[1].field \notin Range(details)
         THEN Append(details, pending[1].field)
         ELSE details)

ValidationResult(row_number, row_values, problem_details) ==
  [row_number |-> row_number, row_values |-> row_values,
   problem_details |-> problem_details]

----------------------------------------------------------------------------
(* validate_dataframe(df, cycle_averages) as a state machine.               *)
(*   columns         df.columns                                            *)
(*   df              the rows in iteration order, each [idx, row]: idx is  *)
(*                   the index label df.iterrows() yields with the row     *)
(*   cycle_averages  [none, d]: the argument (None or a dict), then the    *)
(*                   local of line 56                                      *)
(*   pc              position in the function                              *)
(*   i               number of rows the loop has taken                     *)
(*   incidence, issues   locals of the loop body                           *)
(*   results         the result list                                       *)
(*   error           the missing columns named by the ValueError           *)

\* faulty variant: the failure names only the first missing column
RaiseMissingColumns_FirstOnly ==
  LET missing == SelectSeq(ALL_COLUMNS, LAMBDA c : c \notin columns)
  IN  /\ pc = "start"
      /\ missing # <<>>
      /\ error' = <<missing[1]>>
      /\ pc' = "raised"
      /\ UNCHANGED <<ret, columns, df, cycle_averages, i, incidence, issues, results>>

\* lines 51-53: a schema column is missing, the call raises
RaiseMissingColumns ==
  LET missing == SelectSeq(ALL_COLUMNS, LAMBDA c : c \notin columns)
  IN  /\ pc = "start"
      /\ missing # <<>>
      /\ error' = missing
      /\ pc' = "raised"
      /\ UNCHANGED <<ret, columns, df, cycle_averages, i, incidence, issues, results>>

\* lines 51-56: the schema is complete
BeginPass ==
  LET missing == SelectSeq(ALL_COLUMNS, LAMBDA c : c \notin columns)
  IN  /\ pc = "start"
      /\ missing = <<>>
      /\ results' = <<>>
      /\ cycle_averages' =
           [none |-> FALSE, d |-> IF cycle_averages.none THEN <<>> ELSE cycle_averages.d]
      /\ pc' = "loop"
      /\ UNCHANGED <<ret, columns, df, i, incidence, issues, error>>

\* lines 64-70: take the next row and classify it
NextRow ==
  /\ pc = "loop"
  /\ i < Len(df)
  /\ i' = i + 1
  /\ issues' = <<>>
  /\ incidence' = _normalize_incidence(Get(df[i + 1].row, "Incidencia"))
  /\ pc' = "rule"
  /\ UNCHANGED <<ret, columns, df, cycle_averages, results, error>>

\* lines 75-81
ApplyRule ==
  /\ pc = "rule"
  /\ issues' = issues \o RuleIssues(incidence, df[i].row)
  /\ pc' = "servicio"
  /\ UNCHANGED <<ret, columns, df, cycle_averages, i, incidence, results, error>>

\* lines 86-88
CheckServicio ==
  /\ pc = "servicio"
  /\ pc' = IF Suppressed(incidence, df[i].row) THEN "loop" ELSE "cycle"
  /\ UNCHANGED <<ret, columns, df, cycle_averages, i, incidence, issues, results, error>>

\* lines 93-94
ApplyCycle ==
  /\ pc = "cycle"
  /\ issues' = IF DOMAIN cycle_averages.d # {}
               THEN issues \o rule_cycle(df[i].row, cycle_averages.d)
               ELSE issues
  /\ pc' = "emit"
  /\ UNCHANGED <<ret, columns, df, cycle_averages, i, incidence, results, error>>

\* faulty variant: the row is reported even without issues
Emit_Unconditional ==
  /\ pc = "emit"
  /\ results' =
       Append(results,
         ValidationResult(df[i].idx + 2, RowValues(df[i].row),
                          ProblemDetails(issues, <<>>)))
  /\ pc' = "loop"
  /\ UNCHANGED <<ret, columns, df, cycle_averages, i, incidence, issues, error>>

\* lines 99-125
Emit ==
  /\ pc = "emit"
  /\ results' =
       IF issues = <<>> THEN results
       ELSE Append(results,
              ValidationResult(df[i].idx + 2, RowValues(df[i].row),
                               ProblemDetails(issues, <<>>)))
  /\ pc' = "loop"
  /\ UNCHANGED <<ret, columns, df, cycle_averages, i, incidence, issues, error>>

\* line 127
Return ==
  /\ pc = "loop"
  /\ i = Len(df)
  /\ pc' = "done"
  /\ UNCHANGED <<ret, columns, df, cycle_averages, i, incidence, issues, results, error>>

Next ==
  \/ RaiseMissingColumns
  \/ BeginPass
  \/ NextRow
  \/ ApplyRule
  \/ CheckServicio
  \/ ApplyCycle
  \/ Emit
  \/ Return

----------------------------------------------------------------------------
(* Inputs *)

MaxRows == 2

\* a row with every field filled except "Unidad saliente"
BaseRow ==
  [c \in Range(ALL_COLUMNS) |->
     CASE c = "Recorrido" -> Text(<<"T","1">>)
       [] c = "Servicio" -> Text(<<"5">>)
       [] c = "Unidad" -> Text(<<"1","2">>)
       [] c = "Salida programada" -> Text(<<"0","8",":","0","0">>)
       [] c = "Salida real" -> Text(<<"0","8",":","0","0">>)
       [] c = "Hora de llegada" -> Text(<<"0","9",":","0","0">>)
       [] c = "Ciclo" -> Text(<<"3","0">>)
       [] c = "Unidad saliente" -> None
       [] c = "Hora cambio" -> Text(<<"1","0",":","1","5">>)
       [] c = "Parada" -> Text(<<"P","3">>)
       [] c = "Incidencia" -> None
       [] c = "Motivo" -> Text(<<"8","/","3","0">>)
       [] c = "Código" -> Text(<<"7">>)
       [] c = "Conductor" -> Text(<<"a","n","a">>)
       [] c = "Observaciones" -> Text(<<"o","k">>)]

\* row with the fields of the record fv replaced
With(row, fv) == [c \in DOMAIN row |-> IF c \in DOMAIN fv THEN fv[c] ELSE row[c]]

F1(f, v) == [c \in {f} |-> v]

\* a sloppy row: no driver, an outgoing unit, an over-long cycle
Sloppy(row) ==
  [row EXCEPT !["Conductor"] = None,
              !["Unidad saliente"] = Text(<<"4","4">>),
              !["Ciclo"] = Text(<<"3","1">>)]

IncidenciaCells ==
  {None, Text(<<>>), Text(<<" ","N","a","N"," ">>),
   Text(IN1), Text(IN2), Text(IN3), Text(IN4), Text(IN5), Text(IN6), Text(IN7),
   Text(<<"i","n","3"," ","-"," ","a","t","r","a","s","o">>),
   Text(<<" ","I","N","5">>), Text(<<"I","N","1","0">>),
   Text(<<"I","N","X">>), Text(<<"I","N">>), Text(<<"x">>), IntCell(5)}

EmptyIncidenciaCells == {None, Text(<<>>), Text(<<" ","N","a","N"," ">>)}

ServicioCells == {Text(<<"5">>), Text(<<"0">>), Text(<<" ","0","0"," ">>), IntCell(0)}

MotivoCells ==
  {None, Text(<<"8","/","2","9">>), Text(<<"8","-","3","5">>),
   Text(<<"8"," ","|"," ","3","5">>), Text(<<"8","/","3","0">>),
   Text(<<"8","2","9">>), Text(<<"2","0","2","4","-","0","8","-","2","9">>),
   Text(<<"8",".","3","5">>), Text(<<"x">>),
   IntCell(829), IntCell(835), IntCell(-829),
   FloatCell(FALSE, 8, <<"2","9">>), FloatCell(FALSE, 835, <<"0">>),
   DateTimeCell(2024, 8, 29, 0)}

HoraCambioCells ==
  {None, Text(<<"1","0",":","1","5">>), Text(<<"a","b","c">>),
   TimeCell(10, 15, 0), FloatCell(FALSE, 0, <<"5">>), IntCell(5)}

UnidadSalienteCells == {None, Text(<<"4","4">>)}

SalidaCells ==
  {None, Text(<<"0","8",":","0","0">>), Text(<<"8",":","0","0">>),
   Text(<<"0","8",":","0","5">>), Text(<<"x","x">>), TimeCell(8, 0, 0),
   FloatCell(FALSE, 0, <<"2","5">>), DateTimeCell(2024, 8, 29, 21600)}

\* rows of incidence IN7: motivo, change time and outgoing unit vary
IN7Rows ==
  {With(BaseRow, [c \in {"Incidencia", "Motivo", "Hora cambio", "Unidad saliente", "Servicio"} |->
        CASE c = "Incidencia" -> Text(IN7)
          [] c = "Motivo" -> m
          [] c = "Hora cambio" -> h
          [] c = "Unidad saliente" -> u
          [] c = "Servicio" -> s]) :
     m \in MotivoCells, h \in HoraCambioCells, u \in UnidadSalienteCells,
     s \in {Text(<<"5">>), Text(<<"0">>)}}

\* rows without incidence: the two departure times vary
NoIncidenceRows ==
  {With(base, [c \in {"Incidencia", "Salida programada", "Salida real"} |->
        CASE c = "Incidencia" -> e
          [] c = "Salida programada" -> sp
          [] c = "Salida real" -> sr]) :
     e \in EmptyIncidenciaCells, sp \in SalidaCells, sr \in SalidaCells,
     base \in {BaseRow, Sloppy(BaseRow)}}

\* rows of every incidence text
DispatchRows ==
  {With(base, [c \in {"Incidencia", "Servicio", "Salida real"} |->
        CASE c = "Incidencia" -> inc
          [] c = "Servicio" -> s
          [] c = "Salida real" -> sr]) :
     inc \in IncidenciaCells, s \in ServicioCells,
     sr \in {Text(<<"0","8",":","0","0">>), Text(<<"0","8",":","0","5">>),
             Text(<<"0","7",":","5","5">>)},
     base \in {BaseRow, Sloppy(BaseRow)}}

\* rows of incidence IN2, IN3 and IN4: both departure times vary
TimeRuleRows ==
  {With(BaseRow, [c \in {"Incidencia", "Salida programada", "Salida real"} |->
        CASE c = "Incidencia" -> Text(code)
          [] c = "Salida programada" -> sp
          [] c = "Salida real" -> sr]) :
     code \in {IN2, IN3, IN4}, sp \in SalidaCells, sr \in SalidaCells}

RuleRows == IN7Rows \cup NoIncidenceRows \cup DispatchRows \cup TimeRuleRows

\* the rows of the multi-row passes
PassRows ==
  {BaseRow,
   With(BaseRow, F1("Salida real", Text(<<"0","8",":","0","5">>))),
   With(Sloppy(BaseRow), [c \in {"Incidencia", "Servicio"} |->
        IF c = "Incidencia" THEN Text(IN1) ELSE Text(<<"0">>)]),
   With(BaseRow, [c \in {"Incidencia", "Servicio", "Motivo", "Hora cambio"} |->
        CASE c = "Incidencia" -> Text(IN7)
          [] c = "Servicio" -> Text(<<"0">>)
          [] c = "Motivo" -> Text(<<"8","/","2","9">>)
          [] c = "Hora cambio" -> None]),
   With(BaseRow, [c \in {"Incidencia", "Servicio"} |->
        IF c = "Incidencia" THEN Text(IN7) ELSE Text(<<"0">>)]),
   With(Sloppy(BaseRow), F1("Incidencia", Text(<<"I","N","X">>))),
   With(Sloppy(BaseRow), F1("Incidencia", Text(<<"i","n","6"," ","-"," ","x">>))),
   With(Sloppy(BaseRow), [c \in {"Incidencia", "Parada"} |->
        IF c = "Incidencia" THEN Text(IN2) ELSE Text(<<"P","3">>)]),
   With(Sloppy(BaseRow), [c \in {"Servicio", "Ciclo"} |->
        IF c = "Servicio" THEN Text(<<" ","0"," ">>) ELSE Text(<<"a","b","c">>)])}

\* index labels: a RangeIndex, or the labels a frame keeps after being
\* filtered, sorted or concatenated without reset_index
KeptLabels == <<7, 3, 3, 12>>

IndexLabel(kind, n) ==
  IF kind = "range" THEN n - 1 ELSE KeptLabels[((n - 1) % Len(KeptLabels)) + 1]

AveragesT1 == [r \in {<<"T","1">>} |-> [n |-> 30, d |-> 1]]

AveragesArgs ==
  {[none |-> TRUE, d |-> <<>>], [none |-> FALSE, d |-> <<>>],
   [none |-> FALSE, d |-> AveragesT1]}

SchemaColumns == Range(ALL_COLUMNS)

\* the frames of `len` rows drawn from `rows`, with the given columns
Frames(rows, len, cols, kind) ==
  {[n \in 1..len |->
      [idx |-> IndexLabel(kind, n), row |-> [c \in cols |-> IF c \in SchemaColumns THEN f[n][c] ELSE Text(<<"z">>)]]] :
     f \in [1..len -> rows]}

Locals ==
  /\ pc = "start"
  /\ i = 0
  /\ incidence = <<>>
  /\ issues = <<>>
  /\ results = <<>>
  /\ error = <<>>
  /\ ret = <<>>

\* frames with the whole schema
InitComplete(rows, lens, kinds) ==
  /\ columns \in {SchemaColumns, SchemaColumns \cup {"Extra"}}
  /\ \E len \in lens, kind \in kinds : df \in Frames(rows, len, columns, kind)
  /\ cycle_averages \in AveragesArgs
  /\ Locals

\* frames that lack schema columns
InitMissing ==
  /\ columns \in {SchemaColumns \ {"Conductor"},
                  SchemaColumns \ {"Ciclo", "Conductor"},
                  (SchemaColumns \ {"Recorrido"}) \cup {"Extra"},
                  {}}
  /\ \E len \in 0..1 : df \in Frames(PassRows, len, columns, "range")
  /\ cycle_averages \in AveragesArgs
  /\ Locals

Init == InitComplete(PassRows, 0..MaxRows, {"range", "kept"}) \/ InitMissing

Spec == Init /\ [][Next]_vars

\* passes over one row, the row drawn from the larger set RuleRows
InitRow == InitComplete(RuleRows, {1}, {"range"}) \/ InitMissing

SpecRow == InitRow /\ [][Next]_vars

\* every field filled, "Unidad saliente" included
FullRow == With(BaseRow, F1("Unidad saliente", Text(<<"4","4">>)))

\* the fields other than "Incidencia"
OtherFields == Range(ALL_COLUMNS) \ {"Incidencia"}

\* rows of incidence IN1 to IN6: from the full row up to two fields emptied,
\* from the empty row up to two fields filled
PresenceRows ==
  {[c \in Range(ALL_COLUMNS) |->
      IF c = "Incidencia" THEN Text(code)
      ELSE IF (c \in toggled) = full THEN None ELSE FullRow[c]] :
     code \in {IN1, IN2, IN3, IN4, IN5, IN6},
     full \in BOOLEAN,
     toggled \in {t \in SUBSET OtherFields : Cardinality(t) <= 2}}

InitPresence == InitComplete(PresenceRows, {1}, {"range"}) \/ InitMissing

SpecPresence == InitPresence /\ [][Next]_vars

\* averages tables: none, empty, one route, a key with blanks around it, and
\* keys that are a number's text and the text "nan"
CycleAveragesArgs ==
  {[none |-> TRUE, d |-> <<>>], [none |-> FALSE, d |-> <<>>],
   [none |-> FALSE, d |-> AveragesT1],
   [none |-> FALSE, d |-> [r \in {<<" ","T","1"," ">>} |-> [n |-> 30, d |-> 1]]],
   [none |-> FALSE, d |-> [r \in {<<"T","1">>, <<"5">>, <<"n","a","n">>} |->
                             IF r = <<"T","1">> THEN [n |-> 61, d |-> 2]
                             ELSE [n |-> 30, d |-> 1]]]}

RecorridoCells ==
  {None, Text(<<" "," ">>), Text(<<"n","a","n">>), Text(<<"T","1">>),
   Text(<<" ","T","1"," ">>), Text(<<"t","1">>), Text(<<"T","2">>), IntCell(5)}

CicloCells ==
  {None, Text(<<"3","0">>), Text(<<"3","1">>), Text(<<" ","3","0",".","5"," ">>),
   Text(<<"a","b","c">>), Text(<<"0","0",":","3","1">>), IntCell(30), IntCell(31),
   FloatCell(FALSE, 30, <<"5">>), FloatCell(FALSE, 30, <<"7","5">>), TimeCell(0, 31, 0)}

\* rows of every kind of code: route, cycle and Servicio vary
CycleRows ==
  {With(BaseRow, [c \in {"Incidencia", "Servicio", "Recorrido", "Ciclo"} |->
        CASE c = "Incidencia" -> inc
          [] c = "Servicio" -> s
          [] c = "Recorrido" -> r
          [] c = "Ciclo" -> ci]) :
     inc \in {None, Text(IN1), Text(IN6), Text(IN7), Text(<<"I","N","X">>)},
     s \in {Text(<<"5">>), Text(<<"0">>)},
     r \in RecorridoCells, ci \in CicloCells}

\* passes over one row of CycleRows with each averages table
InitCycle ==
  \/ /\ columns = SchemaColumns
     /\ df \in Frames(CycleRows, 1, columns, "range")
     /\ cycle_averages \in CycleAveragesArgs
     /\ Locals
  \/ InitMissing

SpecCycle == InitCycle /\ [][Next]_vars

\* routes as the sheets write them: spellings of one route, routes that only
\* contain a registered key, routes without limit
LimitRecorridoCells ==
  {None, IntCell(5),
   Text(<<"T","1"," ","-"," ","P","l","a","y","i","t","a">>),
   Text(<<"t","1","-","p","l","a","y","i","t","a">>),
   Text(<<"T","1"," ",EnDash," ","P","L","A","Y","I","T","A">>),
   Text(<<" "," ","T","1"," "," "," ",EmDash," "," ","P","l","a","y","i","t","a"," ">>),
   Text(<<"r","u","t","a"," ","t","1","-","p","l","a","y","i","t","a"," ","n","o","r","t","e">>),
   Text(<<"t","1","-","p","l","a","y","i","t","a"," ","/"," ","t","1","-","p","r","a","d","e","r","a","-","c","a","r","t","o","n","e","r","a">>),
   Text(<<"t","2","-","t","r","d","-","p","l","a","y","i","t","a"," ","t","2","-","p","l","a","z","a"," ","d","a","ñ","i","n">>),
   Text(<<"z","o","n","a"," ","x">>),
   Text(<<" "," ">>),
   Text(<<"T","1">>),
   Text(<<"t","e","r","m","i","n","a","l"," ","g","u","a","s","m","o","-","t","e","r","m","i","n","a","l"," ","g","u","a","s","m","o","-","s","1">>),
   Text(<<"T","2","-","P","l","a","z","a"," ","D","A","Ñ","I","N">>),
   Text(<<"t","2","-","g","u","a","y","a","c","a","n","e","s">>)}

LimitCicloCells ==
  {None,
   Text(<<"3","0">>),
   Text(<<"3","1">>),
   Text(<<" ","3","0",".","5"," ">>),
   Text(<<"a","b","c">>),
   Text(<<"0","0",":","3","0">>),
   Text(<<"0","0",":","3","1">>),
   Text(<<"0",":","3","0",":","3","0">>),
   Text(<<".","5">>),
   Text(<<".","0","2">>),
   Text(<<"-","5">>),
   IntCell(30), IntCell(31), IntCell(40), IntCell(41), IntCell(80), IntCell(81),
   IntCell(110), IntCell(111), IntCell(140), IntCell(141),
   TimeCell(0, 30, 0), TimeCell(0, 30, 30), TimeCell(1, 50, 0), TimeCell(1, 50, 1),
   FloatCell(FALSE, 0, <<"5">>), FloatCell(FALSE, 30, <<"0">>),
   DateTimeCell(2024, 8, 29, 1860)}

\* rows for the static-limit check: code, route and cycle vary
LimitRows ==
  {With(BaseRow, [c \in {"Incidencia", "Recorrido", "Ciclo"} |->
        CASE c = "Incidencia" -> inc
          [] c = "Recorrido" -> r
          [] c = "Ciclo" -> ci]) :
     inc \in {None, Text(IN1), Text(IN6), Text(<<" ","i","n","6"," ","-"," ","x">>),
              Text(<<"I","N","X">>)},
     r \in LimitRecorridoCells, ci \in LimitCicloCells}

\* Motivo values of every kind parse_motivo_code tells apart
MotivoValues ==
  MotivoCells \cup
  {Text(<<>>), Text(<<"n","a","n">>),
   Text(<<"2","0","2","4","-","0","8","-","2","9"," ","0","0",":","0","0",":","0","0">>),
   Text(<<"1","/","2","/","3">>), Text(<<"1","9","0","0"," ","1"," ","2">>),
   Text(<<"1","2","x","3","/","4">>), Text(<<"a","8","/","2","9","b">>),
   Text(<<"8"," ","2","9">>), Text(<<"8",",","3","5">>), Text(<<" ","7"," ">>),
   Text(<<"-","7">>), Text(<<"+","7">>), Text(<<"a","b","c">>), Text(<<"8","/">>),
   IntCell(0), IntCell(7), IntCell(10), IntCell(35), IntCell(-7), IntCell(-10),
   FloatCell(FALSE, 8, <<"0">>), FloatCell(FALSE, 82, <<"9">>),
   FloatCell(FALSE, 0, <<"5">>), FloatCell(FALSE, 8, <<"0","5">>),
   FloatCell(TRUE, 8, <<"5">>), FloatCell(TRUE, 0, <<"5">>), FloatCell(TRUE, 7, <<"0">>),
   TimeCell(8, 30, 0), DateTimeCell(2023, 12, 1, 3600)}

MotivoRows == {With(BaseRow, F1("Motivo", m)) : m \in MotivoValues}

\* the row a rule function is called on
Arg == df[1].row

\* rules.rule_cycle_route_limits(row), called on its own
CallRouteLimits ==
  /\ pc = "call"
  /\ ret' = rule_cycle_route_limits(Arg)
  /\ pc' = "limits_returned"
  /\ UNCHANGED <<columns, df, cycle_averages, i, incidence, issues, results, error>>

\* rules.parse_motivo_code(row.get("Motivo")), called on its own
CallParseMotivo ==
  /\ pc = "call"
  /\ ret' = parse_motivo_code(Get(Arg, "Motivo"))
  /\ pc' = "motivo_returned"
  /\ UNCHANGED <<columns, df, cycle_averages, i, incidence, issues, results, error>>

NextRules == CallRouteLimits \/ CallParseMotivo

InitRules ==
  /\ columns = SchemaColumns
  /\ df \in Frames(LimitRows \cup MotivoRows, 1, columns, "range")
  /\ cycle_averages = [none |-> TRUE, d |-> <<>>]
  /\ pc = "call"
  /\ i = 0
  /\ incidence = <<>>
  /\ issues = <<>>
  /\ results = <<>>
  /\ error = <<>>
  /\ ret = <<>>

\* the rule functions applied to one row each
SpecRules == InitRules /\ [][NextRules]_vars

\* validate_cycles_dataframe(df, cycle_averages), the cycle-only pass: the
\* steps of validate_dataframe with the static-limit check in the place of the
\* rule step and without the average-based check.
\* rule step: the issues are those of the static-limit check
CyclesApplyLimits ==
  /\ pc = "rule"
  /\ issues' = issues \o rule_cycle_route_limits(df[i].row)
  /\ pc' = "servicio"
  /\ UNCHANGED <<ret, columns, df, cycle_averages, i, incidence, results, error>>

\* suppression step: a row that is kept goes straight to the result assembly
CyclesCheckServicio ==
  /\ pc = "servicio"
  /\ pc' = IF Suppressed(incidence, df[i].row) THEN "loop" ELSE "emit"
  /\ UNCHANGED <<ret, columns, df, cycle_averages, i, incidence, issues, results, error>>

NextCycles ==
  \/ RaiseMissingColumns
  \/ BeginPass
  \/ NextRow
  \/ CyclesApplyLimits
  \/ CyclesCheckServicio
  \/ Emit
  \/ Return

PlayitaRow(ciclo) ==
  With(BaseRow, [c \in {"Recorrido", "Ciclo"} |->
        IF c = "Recorrido" THEN Text(<<"T","1"," ","-"," ","P","l","a","y","i","t","a">>) ELSE ciclo])

\* the rows of the cycle-only passes
CyclesPassRows ==
  {Sloppy(BaseRow),
   PlayitaRow(Text(<<"3","1">>)),
   PlayitaRow(Text(<<"3","0">>)),
   With(PlayitaRow(Text(<<"3","1">>)), F1("Incidencia", Text(IN6))),
   With(PlayitaRow(Text(<<"3","1">>)), [c \in {"Incidencia", "Servicio"} |->
        IF c = "Incidencia" THEN Text(IN1) ELSE Text(<<"0">>)]),
   With(PlayitaRow(Text(<<"3","1">>)), [c \in {"Incidencia", "Servicio"} |->
        IF c = "Incidencia" THEN Text(IN7) ELSE Text(<<"0">>)]),
   With(PlayitaRow(Text(<<"3","0">>)), [c \in {"Incidencia", "Servicio"} |->
        IF c = "Incidencia" THEN Text(IN7) ELSE Text(<<"0">>)]),
   With(BaseRow, [c \in {"Incidencia", "Recorrido", "Ciclo"} |->
        CASE c = "Incidencia" -> Text(IN3)
          [] c = "Recorrido" -> Text(<<"r","u","t","a"," ","t","1","-","p","l","a","y","i","t","a"," ","n","o","r","t","e">>)
          [] c = "Ciclo" -> Text(<<"a","b","c">>)])}

InitCycles == InitComplete(CyclesPassRows, 0..MaxRows, {"range", "kept"}) \/ InitMissing

SpecCycles == InitCycles /\ [][NextCycles]_vars

----------------------------------------------------------------------------
(* Properties *)

CurRow == df[i].row

Fields(iss) == [n \in 1..Len(iss) |-> iss[n].field]

Flagged(iss, field) == \E n \in 1..Len(iss) : iss[n].field = field

Last(s) == s[Len(s)]

\* the step that ends the loop body for the current row
RowDone == pc \in {"servicio", "emit"} /\ pc' = "loop"

\* that step appended a Validation Result
Reported == Len(results') = Len(results) + 1

ServicioZero(row) == to_int(Get(row, "Servicio")) = <<0>>

CodeOf(row) == _normalize_incidence(Get(row, "Incidencia"))

\* every issue the rule step and the average-based cycle check give for a row
AllIssues(row) ==
  RuleIssues(CodeOf(row), row)
    \o (IF DOMAIN cycle_averages.d # {} THEN rule_cycle(row, cycle_averages.d) ELSE <<>>)

MissingColumns == SchemaColumns \ columns

\* C1: the pass raises iff a schema column is missing; the failure names every
\* missing column once, no row has been processed and no result exists; with
\* the whole schema present (extra columns allowed) the pass never raises: until
\* it returns it stands at a step of the loop, on a row of the frame.
C1_SchemaPreCheck ==
  /\ pc # "start" => ((pc = "raised") <=> (MissingColumns # {}))
  /\ pc = "raised" =>
       /\ Range(error) = MissingColumns
       /\ Len(error) = Cardinality(MissingColumns)
       /\ i = 0 /\ issues = <<>> /\ results = <<>>
  /\ pc # "raised" => error = <<>>
  /\ pc = "done" => MissingColumns = {} /\ i = Len(df) /\ Len(results) <= Len(df)
  /\ (MissingColumns = {} /\ pc # "done") =>
       /\ pc \in {"start", "loop", "rule", "servicio", "cycle", "emit"}
       /\ i <= Len(df)
       /\ pc \in {"rule", "servicio", "cycle", "emit"} => i >= 1

C1_Witness ==
  /\ pc = "raised"
  /\ Cardinality(MissingColumns) = 2
  /\ "Extra" \notin columns
  /\ Len(df) = 1

\* C2: a row whose Servicio parses to 0 and whose code is not IN7 is never
\* reported, whatever issues it has; a row with Servicio 0 and code IN7 is
\* reported iff it has at least one issue.
C2_ServicioZeroSuppression ==
  [][RowDone =>
       /\ (ServicioZero(CurRow) /\ CodeOf(CurRow) # IN7) => results' = results
       /\ (ServicioZero(CurRow) /\ CodeOf(CurRow) = IN7) =>
            (Reported <=> AllIssues(CurRow) # <<>>)]_vars

C2_Witness ==
  /\ pc = "loop" /\ i = 2
  /\ ServicioZero(CurRow) /\ CodeOf(CurRow) = IN1
  /\ issues # <<>>
  /\ rule_cycle(CurRow, cycle_averages.d) # <<>>
  /\ ServicioZero(df[1].row) /\ CodeOf(df[1].row) = IN7
  /\ Len(results) = 1

\* C3: a row without rule issue and without cycle issue gives no result; every
\* result has a non-empty problem-field list; a row that is not suppressed and
\* has an issue is reported.
C3_ReportedIffIssues ==
  /\ [](\A n \in 1..Len(results) : results[n].problem_details # <<>>)
  /\ [][RowDone =>
          /\ AllIssues(CurRow) = <<>> => results' = results
          /\ (~(ServicioZero(CurRow) /\ CodeOf(CurRow) # IN7)
                /\ AllIssues(CurRow) # <<>>) => Reported]_vars

C3_Witness ==
  /\ pc = "loop" /\ i = 2 /\ Len(results) = 1
  /\ AllIssues(df[1].row) = <<>>
  /\ ~ServicioZero(df[1].row)
  /\ AllIssues(df[2].row) # <<>>
  /\ RuleIssues(CodeOf(df[2].row), df[2].row) = <<>>

\* C4: whatever index labels the rows carry, each result's row_number is the
\* row's zero-based position in the iteration plus 2, and the row numbers of
\* the result list are strictly increasing.
C4_RowNumberIsPositionPlus2 ==
  /\ [][Reported => Last(results').row_number = (i - 1) + 2]_vars
  /\ [](\A a, b \in 1..Len(results) :
          a < b => results[a].row_number < results[b].row_number)

\* C5: problem_details holds exactly the fields of the accumulated issues (rule
\* issues, then cycle issues), each once, in the order of their first issue.
FirstIssue(iss, field) == CHOOSE n \in 1..Len(iss) : iss[n].field = field /\ \A m \in 1..(n - 1) : iss[m].field # field

C5_ProblemDetails ==
  [][Reported =>
       LET details == Last(results').problem_details
       IN  /\ issues = AllIssues(CurRow)
           /\ Range(details) = Range(Fields(issues))
           /\ \A a, b \in 1..Len(details) :
                a < b => /\ details[a] # details[b]
                         /\ FirstIssue(issues, details[a]) < FirstIssue(issues, details[b])]_vars

C5_Witness ==
  /\ pc = "loop" /\ i > 0 /\ results # <<>>
  /\ CodeOf(CurRow) = IN7
  /\ parse_motivo_code(Get(CurRow, "Motivo")) = <<<<8>>, <<29>>>>
  /\ Cardinality({n \in 1..Len(issues) : issues[n].field = "Hora cambio"}) = 2
  /\ Last(results).problem_details = <<"Hora cambio">>

----------------------------------------------------------------------------
(* Properties of the rule step, on passes over one row (SpecRow).  At       *)
(* pc = "servicio" the rule step has run and `issues` holds its issues.     *)

MotivoOf(row) == parse_motivo_code(Get(row, "Motivo"))

Is829(row) == MotivoOf(row) = <<<<8>>, <<29>>>>

Is835(row) == MotivoOf(row) = <<<<8>>, <<35>>>>

AfterRule(code) == pc = "servicio" /\ incidence = code

HoraCambio == Get(CurRow, "Hora cambio")

UnidadSaliente == Get(CurRow, "Unidad saliente")

\* C6 as stated: with code IN7 and motivo (8,29), an empty "Hora cambio" is
\* flagged on that field and a non-empty one is not.
C6_PopulatedNotFlagged ==
  (AfterRule(IN7) /\ Is829(CurRow)) =>
    /\ is_empty(HoraCambio) => Flagged(issues, "Hora cambio")
    /\ ~is_empty(HoraCambio) => ~Flagged(issues, "Hora cambio")

\* C6 amended: with code IN7 and motivo (8,29), "Hora cambio" is flagged iff it
\* is empty or does not parse as a time of day.
C6_FlaggedIffNoTime ==
  (AfterRule(IN7) /\ Is829(CurRow)) =>
    /\ Flagged(issues, "Hora cambio") <=> (to_time(HoraCambio) = <<>>)
    /\ is_empty(HoraCambio) => Flagged(issues, "Hora cambio")

C6_Witness ==
  /\ AfterRule(IN7) /\ Is829(CurRow)
  /\ HoraCambio = Text(<<"a","b","c">>)
  /\ Flagged(issues, "Hora cambio")
  /\ Get(CurRow, "Motivo") = Text(<<"8","/","2","9">>)

HoraCambioRequiredIssue ==
  \E n \in 1..Len(issues) : issues[n] = Issue("Hora cambio", "IN7: Campo obligatorio")

\* C7: with code IN7 and motivo (8,35), "Hora cambio" is flagged iff it is
\* non-empty and an empty one gives no required-field issue; with any other
\* motivo an empty "Hora cambio" is flagged as a missing required field.
C7_HoraCambioMotivo835 ==
  AfterRule(IN7) =>
    /\ Is835(CurRow) =>
         /\ Flagged(issues, "Hora cambio") <=> ~is_empty(HoraCambio)
         /\ ~HoraCambioRequiredIssue
    /\ (~Is835(CurRow) /\ is_empty(HoraCambio)) => HoraCambioRequiredIssue

C7_Witness ==
  /\ AfterRule(IN7) /\ Is835(CurRow)
  /\ Get(CurRow, "Motivo") = IntCell(835)
  /\ is_empty(HoraCambio)
  /\ ~Flagged(issues, "Hora cambio")

\* C8 as stated: with code IN7, whatever the motivo, a non-empty "Unidad
\* saliente" is flagged on that field.
C8_UnidadSalienteAlwaysFlagged ==
  (AfterRule(IN7) /\ ~is_empty(UnidadSaliente)) => Flagged(issues, "Unidad saliente")

\* C8 amended: with code IN7, "Unidad saliente" is flagged iff it is non-empty
\* and the motivo parses to (8,29) or (8,35).
C8_UnidadSalienteByMotivo ==
  AfterRule(IN7) =>
    (Flagged(issues, "Unidad saliente")
       <=> (~is_empty(UnidadSaliente) /\ (Is829(CurRow) \/ Is835(CurRow))))

C8_Witness ==
  /\ AfterRule(IN7)
  /\ ~is_empty(UnidadSaliente)
  /\ Get(CurRow, "Motivo") = Text(<<"2","0","2","4","-","0","8","-","2","9">>)
  /\ Flagged(issues, "Unidad saliente")

\* incidence cells and the code each normalizes to
NormalizedExamples ==
  {<<Text(<<"i","n","3"," ","-"," ","a","t","r","a","s","o">>), IN3>>,
   <<Text(<<" ","I","N","5">>), IN5>>,
   <<Text(<<"I","N","1","0">>), IN1>>,
   <<Text(IN7), IN7>>,
   <<Text(<<"I","N">>), <<"I","N">>>>,
   <<Text(<<"x">>), <<"X">>>>,
   <<IntCell(5), <<"5">>>>,
   <<Text(<<" ","N","a","N"," ">>), <<>>>>,
   <<None, <<>>>>}

\* C9: a registered code runs exactly its own rule, an empty code only the rule
\* of rows without incidence, any other code no rule at all; without averages a
\* row of such a code is not reported.
C9_RuleDispatch ==
  /\ pc \notin {"start", "raised"} /\ i > 0 =>
       \A e \in NormalizedExamples :
         Get(CurRow, "Incidencia") = e[1] => incidence = e[2]
  /\ pc = "servicio" =>
       issues = CASE incidence = IN1 -> rule_in1(CurRow)
                  [] incidence = IN2 -> rule_in2(CurRow)
                  [] incidence = IN3 -> rule_in3(CurRow)
                  [] incidence = IN4 -> rule_in4(CurRow)
                  [] incidence = IN5 -> rule_in5(CurRow)
                  [] incidence = IN6 -> rule_in6(CurRow)
                  [] incidence = IN7 -> rule_in7(CurRow)
                  [] incidence = <<>> -> rule_no_incidence(CurRow)
                  [] OTHER -> <<>>
  /\ (pc = "done" /\ Len(df) = 1 /\ DOMAIN cycle_averages.d = {}
        /\ CodeOf(df[1].row) \notin (INCIDENCE_RULES \cup {<<>>})) => results = <<>>

C9_Witness ==
  /\ pc = "done" /\ Len(df) = 1 /\ results = <<>>
  /\ DOMAIN cycle_averages.d = {}
  /\ Get(df[1].row, "Incidencia") = Text(<<"I","N">>)
  /\ is_empty(Get(df[1].row, "Conductor"))
  /\ rule_no_incidence(df[1].row) # <<>>
  /\ ~ServicioZero(df[1].row)

\* C10: for a row without incidence code the rule gives an issue iff a
\* departure time does not parse or the two parsed times differ; at most one
\* issue, always on "Salida real", and no other field is flagged.
C10_NoIncidenceRule ==
  AfterRule(<<>>) =>
    LET t_prog == to_time(Get(CurRow, "Salida programada"))
        t_real == to_time(Get(CurRow, "Salida real"))
    IN  /\ Len(issues) <= 1
        /\ \A n \in 1..Len(issues) : issues[n].field = "Salida real"
        /\ issues # <<>> <=> (t_prog = <<>> \/ t_real = <<>> \/ t_prog[1] # t_real[1])

C10_Witness ==
  /\ AfterRule(<<>>)
  /\ Get(CurRow, "Salida programada") = TimeCell(8, 0, 0)
  /\ Get(CurRow, "Salida real") = Text(<<"8",":","0","0">>)
  /\ is_empty(Get(CurRow, "Conductor"))
  /\ ~is_empty(UnidadSaliente)
  /\ issues = <<>>

SalidaProgramada == Get(CurRow, "Salida programada")

SalidaReal == Get(CurRow, "Salida real")

\* the issues on "Salida real" that are not the presence check's
TimeConstraintIssues ==
  SelectSeq(issues, LAMBDA x : x.field = "Salida real"
                               /\ x.message \notin {"IN2: Campo obligatorio",
                                                     "IN3: Campo obligatorio",
                                                     "IN4: Campo obligatorio"})

\* C11: under IN2, IN3 and IN4 the time constraint adds exactly one issue on
\* "Salida real" when either departure time does not parse; with both parsed,
\* IN2 adds one iff the actual departure is not strictly earlier than the
\* scheduled one, IN3 and IN4 add one iff it is not strictly later; equal
\* times are flagged under all three codes.
C11_TimeConstraint ==
  \A code \in {IN2, IN3, IN4} :
    AfterRule(code) =>
      LET t_prog == to_time(SalidaProgramada)
          t_real == to_time(SalidaReal)
          added == Len(TimeConstraintIssues)
      IN  /\ added \in {0, 1}
          /\ (t_prog = <<>> \/ t_real = <<>>) => added = 1
          /\ (t_prog # <<>> /\ t_real # <<>>) =>
                /\ code = IN2 => (added = 1 <=> t_real[1] >= t_prog[1])
                /\ code \in {IN3, IN4} => (added = 1 <=> t_real[1] <= t_prog[1])
                /\ t_real[1] = t_prog[1] => added = 1

\* IN2 with equal departure times written differently: flagged
C11_Witness ==
  /\ AfterRule(IN2)
  /\ SalidaProgramada = Text(<<"0","8",":","0","0">>)
  /\ SalidaReal = TimeCell(8, 0, 0)
  /\ Len(TimeConstraintIssues) = 1

TimeConstraintMessages ==
  {"IN2: Salida real y programada deben ser validas",
   "IN2: Salida real debe ser menor que Salida programada",
   "IN3: Salida real y programada deben ser validas",
   "IN3: Salida real debe ser mayor que Salida programada",
   "IN4: Salida real y programada deben ser validas",
   "IN4: Salida real debe ser mayor que Salida programada"}

\* the issues of the presence checks: all but the time constraint's
PresenceIssues == SelectSeq(issues, LAMBDA x : x.message \notin TimeConstraintMessages)

RequiredFields(code) ==
  CASE code \in {IN1, IN2, IN3, IN4} ->
         Range(ALL_COLUMNS) \ {"Unidad saliente", "Hora cambio", "Parada"}
    [] code = IN5 -> Range(ALL_COLUMNS) \ {"Parada"}
    [] code = IN6 -> {}

MustBeEmptyFields(code) ==
  CASE code = IN1 -> {"Unidad saliente"}
    [] code \in {IN2, IN3, IN4} -> {"Unidad saliente", "Hora cambio", "Parada"}
    [] code = IN5 -> {"Parada"}
    [] code = IN6 ->
         Range(ALL_COLUMNS) \ {"Recorrido", "Servicio", "Salida programada",
                               "Incidencia", "Motivo", "Observaciones"}

\* C12: for the codes IN1 to IN6 the presence checks flag exactly the required
\* fields that are empty and the must-be-empty fields that are filled, one
\* issue for each such field.
C12_PresenceChecks ==
  \A code \in {IN1, IN2, IN3, IN4, IN5, IN6} :
    AfterRule(code) =>
      LET expected ==
            {f \in RequiredFields(code) : is_empty(Get(CurRow, f))}
              \cup {f \in MustBeEmptyFields(code) : ~is_empty(Get(CurRow, f))}
      IN  /\ Range(Fields(PresenceIssues)) = expected
          /\ Len(PresenceIssues) = Cardinality(expected)

\* IN1 with the change time and the stop filled and the driver empty: only
\* the driver is flagged
C12_Witness ==
  /\ AfterRule(IN1)
  /\ ~is_empty(Get(CurRow, "Hora cambio"))
  /\ ~is_empty(Get(CurRow, "Parada"))
  /\ is_empty(Get(CurRow, "Unidad saliente"))
  /\ Range(Fields(PresenceIssues)) = {"Conductor"}

\* the step of the average-based cycle check
CycleStep == pc = "cycle" /\ pc' = "emit"

\* that step added exactly one issue, on "Ciclo"
CycleIssueAdded ==
  /\ Len(issues') = Len(issues) + 1
  /\ SubSeq(issues', 1, Len(issues)) = issues
  /\ Last(issues').field = "Ciclo"

\* the cycle value does not parse as a real number or exceeds the average of key
CycleOverAverage(key) ==
  LET ciclo == to_float(Get(CurRow, "Ciclo"))
  IN  ciclo = <<>> \/ RatGT(ciclo[1], cycle_averages.d[key])

RouteText == Str(Get(CurRow, "Recorrido"))

NotSuppressedAtCycle ==
  pc \in {"cycle", "emit"} => ~(ServicioZero(CurRow) /\ incidence # IN7)

\* C13 as stated: the route text itself must be a key of the table.
C13_ExactRouteKey ==
  /\ [] NotSuppressedAtCycle
  /\ [][CycleStep =>
          IF /\ ~is_empty(Get(CurRow, "Recorrido"))
             /\ RouteText \in DOMAIN cycle_averages.d
             /\ CycleOverAverage(RouteText)
          THEN CycleIssueAdded
          ELSE issues' = issues]_vars

\* C13: the cycle check runs for a row of any code that is not suppressed; it
\* adds one issue on "Ciclo" iff the table is not empty, the row's route is not
\* empty, the route text with the blanks around it removed is a key of the
\* table, and the cycle value does not parse as a real number or is strictly
\* greater than that key's average; otherwise it adds nothing.
C13_StrippedRouteKey ==
  /\ [] NotSuppressedAtCycle
  /\ [][CycleStep =>
          IF /\ ~is_empty(Get(CurRow, "Recorrido"))
             /\ StrStrip(RouteText) \in DOMAIN cycle_averages.d
             /\ CycleOverAverage(StrStrip(RouteText))
          THEN CycleIssueAdded
          ELSE issues' = issues]_vars

\* a route written with blanks around it, over the average of its stripped key
C13_Witness ==
  /\ pc = "emit"
  /\ incidence = <<>>
  /\ Get(CurRow, "Recorrido") = Text(<<" ","T","1"," ">>)
  /\ Get(CurRow, "Ciclo") = IntCell(31)
  /\ cycle_averages.d = AveragesT1
  /\ Flagged(issues, "Ciclo")

\* the registered route keys
RouteKeys == {ROUTE_CYCLE_LIMITS[n].key : n \in 1..Len(ROUTE_CYCLE_LIMITS)}

\* the limit of a registered key, in minutes
LimitMinutes(key) ==
  LET n == CHOOSE m \in 1..Len(ROUTE_CYCLE_LIMITS) : ROUTE_CYCLE_LIMITS[m].key = key
  IN  [n |-> ROUTE_CYCLE_LIMITS[n].limit.t, d |-> 60]

\* the keys whose limit applies to a normalized route: the route itself if it
\* is registered, else the longest registered keys found inside it
ApplicableKeys(route) ==
  IF route \in RouteKeys THEN {route}
  ELSE LET inside == {k \in RouteKeys : Contains(route, k)}
       IN  {k \in inside : \A other \in inside : Len(other) <= Len(k)}

T1Playita == <<"t","1","-","p","l","a","y","i","t","a">>

\* C14: the static-limit check gives nothing for code IN6, for an empty route
\* and for a route without applicable limit; the limit is that of the
\* normalized route if it is a registered key, else that of the longest
\* registered key inside it; with a limit, "Ciclo" is flagged once iff the
\* cycle does not parse as minutes or is strictly greater than the limit.
\* "T1 - Playita" and "t1-playita" normalize to the same key, whose limit of
\* 30 minutes flags 31 and not 30.
C14_RouteLimits ==
  /\ normalize_recorrido(Text(<<"T","1"," ","-"," ","P","l","a","y","i","t","a">>)) = <<T1Playita>>
  /\ normalize_recorrido(Text(<<"t","1","-","p","l","a","y","i","t","a">>)) = <<T1Playita>>
  /\ LimitMinutes(T1Playita) = [n |-> 1800, d |-> 60]
  /\ pc = "limits_returned" =>
       LET route == normalize_recorrido(Get(Arg, "Recorrido"))
           minutes == to_minutes(Get(Arg, "Ciclo"))
       IN  IF \/ CodeOf(Arg) = IN6
              \/ route = <<>>
              \/ ApplicableKeys(route[1]) = {}
           THEN ret = <<>>
           ELSE \E key \in ApplicableKeys(route[1]) :
                  IF minutes = <<>> \/ RatGT(minutes[1], LimitMinutes(key))
                  THEN Len(ret) = 1 /\ ret[1].field = "Ciclo"
                  ELSE ret = <<>>
  /\ (pc = "limits_returned" /\ CodeOf(Arg) # IN6
        /\ Get(Arg, "Recorrido") = Text(<<"T","1"," ","-"," ","P","l","a","y","i","t","a">>)) =>
       /\ Get(Arg, "Ciclo") = IntCell(31) => ret # <<>>
       /\ Get(Arg, "Ciclo") = IntCell(30) => ret = <<>>

\* a route that only contains the key, a cycle one minute over its limit
C14_Witness ==
  /\ pc = "limits_returned"
  /\ Get(Arg, "Recorrido") = Text(<<"r","u","t","a"," ","t","1","-","p","l","a","y","i","t","a"," ","n","o","r","t","e">>)
  /\ Get(Arg, "Ciclo") = Text(<<"0","0",":","3","1">>)
  /\ CodeOf(Arg) = IN1
  /\ Len(ret) = 1

\* the decimal digits of an integer, its sign left out
DigitsOf(n) == NatToStr(IF n < 0 THEN -n ELSE n)

\* the result the steps of C15 give for a number
MotivoOfNumber(value) ==
  LET x == RatOf(value)
      int_value == IF x.n < 0 THEN -((-x.n) \div x.d) ELSE x.n \div x.d
      digits == DigitsOf(int_value)
  IN  IF value.k = "float" /\ x.n % x.d # 0 /\ ~value.neg
      THEN <<<<value.ip>>, <<DigitsToInt(value.frac)>>>>
      ELSE IF Len(digits) >= 2
      THEN <<<<DigitVal(digits[1])>>, <<DigitsToInt(Tail(digits))>>>>
      ELSE <<<<>>, <<int_value>>>>

\* C15: parse_motivo_code returns the result of the first step that applies:
\* empty gives (absent, absent); a date-time gives (month, day); a number that
\* is a non-integral real read as <int>.<int> gives that pair, otherwise its
\* integer form gives (first digit, remaining digits) with two digits or more
\* and (absent, n) with one digit; a text gives the last two of three or more
\* digit runs whose first is at least 1900, else the pair around a separator,
\* else the first two digit runs, else the whole text as one integer, else
\* (absent, absent).
C15_ParseMotivoSteps ==
  pc = "motivo_returned" =>
    LET value == Get(Arg, "Motivo")
    IN  ret = CASE is_empty(value) -> <<<<>>, <<>>>>
                [] value.k = "datetime" -> <<<<value.mo>>, <<value.d>>>>
                [] value.k \in {"int", "float"} -> MotivoOfNumber(value)
                [] OTHER -> parse_motivo_text(StrStrip(Str(value)))

====
